---- MODULE Spec2Model ----
(***************************************************************************)
(* Job queue of will-exp-nextjs-bullmq: the publisher (POST /api/jobs),    *)
(* the jobs table, the BullMQ 'email' queue, the worker's processor        *)
(* (processEmailJob) and the worker process with its signal listeners and  *)
(* shutdown().  Every await of the source is a step of its own, so         *)
(* publisher requests, worker attempts, shutdown calls and the broker      *)
(* interleave as the processes do.                                         *)
(***************************************************************************)
EXTENDS Integers, Sequences, FiniteSets, TLC

(* ------------------------------ bounds -------------------------------- *)

\* concurrent POST /api/jobs requests
Reqs == {"r1", "r2"}

\* values randomUUID() may return (two requests may draw the same one)
Ids == {"u1", "u2"}

\* processor slots of the worker processes (concurrency and scaling)
Workers == {"w1", "w2"}

\* times the broker hands a stalled (abandoned) job back to the queue
MaxStalledCount == 1

\* jobs the workers take from the queue in one run of the whole system
\* (attempts of all jobs together)
MaxDeliveries == 2

\* SIGTERM and SIGINT signals delivered to one worker process
MaxSignals == 2

\* sequential start-ups of the application against one database
MaxStarts == 4

\* Pool objects one process creates, Queue objects it creates, and calls of
\* closeDbConnection() and of closeQueues() it makes
MaxPools == 2
MaxQueues == 3
MaxCloses == 2

\* the environment of a process: DATABASE_SSL, NODE_ENV ("" is unset) and
\* DATABASE_URL, a string written as the sequence of its parts (<< >> is unset)
DatabaseSsls == {"", "true", "1", "false", "TRUE"}
NodeEnvs == {"", "production", "development"}
Hosts ==
    { <<"localhost">>, <<"127.0.0.1">>, <<"postgres">>, <<"pg-", "postgres">>,
      <<"db.example.com">> }
Ports == {":5432", ":6543"}
ConnectionStrings ==
    { <<"postgresql://", "user@">> \o h \o <<p, "/jobs">> :
         h \in Hosts, p \in Ports }
    \cup {<< >>}

\* queue names getQueue is called with
QueueNames == {"email", "report"}

\* the options value of a publishJob call: every field left out, falsy, or
\* given (Omitted and NoBackoff stand for JavaScript's undefined)
Omitted == -1
NoBackoff == [type |-> "undefined", delay |-> Omitted]
Backoffs ==
    { [type |-> "fixed", delay |-> 1000],
      [type |-> "exponential", delay |-> 500] }
Options ==
    [delay : {Omitted, 0, 5000},
     attempts : {Omitted, 0, 1, 5},
     backoff : {NoBackoff} \cup Backoffs]

(* ------------------------- program constants -------------------------- *)

\* route.ts: const validJobTypes: JobType[] = ['email', 'notification', 'report']
validJobTypes == {"email", "notification", "report"}

\* request bodies: each accepted jobType, with and without jobData, an
\* unknown jobType, and a body without jobType ("" stands for a missing field)
Bodies ==
    { [jobType |-> "email", jobData |-> "to=a@b.com"],
      [jobType |-> "notification", jobData |-> ""],
      [jobType |-> "report", jobData |-> "month=11"],
      [jobType |-> "fax", jobData |-> "to=555"],
      [jobType |-> "", jobData |-> ""] }

\* queue.ts: attempts: options?.attempts || 3
DefaultAttempts == 3

\* queue.ts: backoff: options?.backoff || { type: 'exponential', delay: 2000 }
DefaultBackoffDelay == 2000

NULL == "NULL"
NoJob == "none"

VARIABLES
    jobs,       \* the jobs table: id -> row, for the ids that have a row
    queue,      \* the 'email' queue: request -> the message it added
    pc,         \* each POST request's position
    body,       \* each POST request's body: [jobType, jobData]
    jobId,      \* each POST request's generated id
    resp,       \* each POST request's HTTP status (0: not answered)
    wpc,        \* each processor slot's position in processEmailJob
    wjob,       \* the message a processor slot holds
    werr,       \* the error the processor caught
    execs,      \* history: message -> times the try block was entered
    limit,      \* the deliveries this run may make (fixed by Init)
    proc,       \* the worker process: "starting", "running", "exit0", "exit1"
                \* or "crashed"
    pool,       \* the worker's pg pool: the module variable and the Pool
    sdpc,       \* each call of shutdown(): its position
    opts,       \* the options each caller passes to publishJob
    got,        \* the last GET /api/jobs: its parameters and its response
    env,        \* process -> whether its DATABASE_URL is set
    app,        \* the application process: its position in the start script
    mig,        \* the database schema: what exists of schema_migrations, its
                \* version row and the objects of 001_create_jobs_table
    ran,        \* history: the start-ups that executed the migration SQL
    starts,     \* the number of the application's current start-up
    cfg,        \* a process's environment: DATABASE_SSL, NODE_ENV, DATABASE_URL
    pools,      \* the Pool objects getDbClient has created, in order
    poolRef,    \* db/client: let pool (0 is null, else an index of pools)
    pcl,        \* each closeDbConnection() call: its position
    pgot,       \* history: what the last getDbClient() call returned
    qobjs,      \* the Queue objects getQueue has created, in order
    cached,     \* lib/queue: the values of the Map queues (indices of qobjs)
    qcl,        \* each closeQueues() call: its position
    qgot,       \* history: what the last getQueue() call returned
    qsince      \* history: name -> instances returned since queues.clear()

vars ==
    <<jobs, queue, pc, body, jobId, resp, wpc, wjob, werr, execs, limit,
      proc, pool, sdpc, opts, got, env, app, mig, ran, starts,
      cfg, pools, poolRef, pcl, pgot, qobjs, cached, qcl, qgot, qsince>>

pubVars == <<pc, body, jobId, resp>>
workVars == <<wpc, wjob, werr, execs>>
procVars == <<proc, pool, sdpc>>
startVars == <<env, app, mig, ran, starts>>
poolVars == <<cfg, pools, poolRef, pcl, pgot>>
queueVars == <<qobjs, cached, qcl, qgot, qsince>>
libVars == <<cfg, pools, poolRef, pcl, pgot, qobjs, cached, qcl, qgot, qsince>>
sideVars ==
    <<opts, got, env, app, mig, ran, starts,
      cfg, pools, poolRef, pcl, pgot, qobjs, cached, qcl, qgot, qsince>>

(* ------------------------------- store -------------------------------- *)

\* JSON.stringify(jobData || {})
StringifyJobData(d) == IF d = "" THEN "{}" ELSE d

\* faulty variant: the row is inserted as being processed already
NewRowProcessing(t, d, at) ==
    [job_type |-> t, status |-> "processing", job_data |-> StringifyJobData(d),
     result |-> NULL, error_message |-> NULL, completed_at |-> 0,
     created_at |-> at]

\* INSERT INTO jobs (id, job_type, status, job_data, created_at, updated_at)
\* VALUES ($1, $2, 'pending', $4, NOW(), NOW())
NewRow(t, d, at) ==
    [job_type |-> t, status |-> "pending", job_data |-> StringifyJobData(d),
     result |-> NULL, error_message |-> NULL, completed_at |-> 0,
     created_at |-> at]

\* NOW() of an INSERT: the timestamps of successive INSERTs are taken to be
\* distinct and increasing, so a row's created_at is its place in that order
Now == Cardinality(DOMAIN jobs) + 1

\* faulty variant: the table without its primary key
InsertAcceptedNoPrimaryKey(id, t) == t \in validJobTypes

\* id UUID PRIMARY KEY; CHECK (job_type IN ('email','notification','report'))
InsertAccepted(id, t) == id \notin DOMAIN jobs /\ t \in validJobTypes

\* faulty variant: only if (!jobType), the includes test forgotten
IsValidJobTypeTruthyOnly(t) == t # ""

\* route.ts: if (!jobType || !validJobTypes.includes(jobType)) -> 400
IsValidJobType(t) == t # "" /\ t \in validJobTypes

\* faulty variant: the UPDATE without its WHERE clause
UpdateRowNoWhere(id, new) == [x \in DOMAIN jobs |-> new]

\* UPDATE jobs SET ... WHERE id = $n: no row matched changes nothing, no error
UpdateRow(id, new) ==
    IF id \in DOMAIN jobs THEN [jobs EXCEPT ![id] = new] ELSE jobs

\* UPDATE jobs SET status = 'processing', updated_at = NOW()
SetProcessing(row) == [row EXCEPT !.status = "processing"]

\* UPDATE jobs SET status = 'completed', completed_at = NOW(), updated_at = NOW()
\* (completed_at counts the times it was written; 0 is NULL)
SetCompleted(row) ==
    [row EXCEPT !.status = "completed", !.completed_at = @ + 1]

\* faulty variant: the error message bound to the wrong column
SetFailedIntoJobData(row, e) == [row EXCEPT !.status = "failed", !.job_data = e]

\* UPDATE jobs SET status = 'failed', error_message = $2, updated_at = NOW()
SetFailed(row, e) == [row EXCEPT !.status = "failed", !.error_message = e]

\* the message of a rejected db.query
QueryError == "query failed"

(* ------------------------------ broker -------------------------------- *)

NoMsg ==
    [state |-> "none", name |-> "", jobId |-> NoJob, jobType |-> "",
     jobData |-> "",
     status |-> "", attempts |-> 0, backoffType |-> "", backoffDelay |-> 0,
     attemptsMade |-> 0, delay |-> 0, stalledCounter |-> 0]

\* publishEmailJob(createJobInput): options is undefined, and options?.x is
\* undefined for every x
NoOptions == [delay |-> Omitted, attempts |-> Omitted, backoff |-> NoBackoff]

\* publishJob: { delay: options?.delay, attempts: options?.attempts || 3,
\* backoff: options?.backoff || { type: 'exponential', delay: 2000 } }
\* (x || y is y when x is undefined or 0)
JobsOptions(o) ==
    [delay |-> o.delay,
     attempts |-> IF o.attempts \in {Omitted, 0}
                  THEN DefaultAttempts ELSE o.attempts,
     backoff |-> IF o.backoff = NoBackoff
                 THEN [type |-> "exponential", delay |-> DefaultBackoffDelay]
                 ELSE o.backoff]

\* queue.add(queueName, jobData, jobsOptions): a job with a delay starts in
\* the delayed set, with none (undefined or 0) in the waiting list
AddedJob(name, id, t, d, jo) ==
    LET delay == IF jo.delay = Omitted THEN 0 ELSE jo.delay IN
    [state |-> IF delay > 0 THEN "delayed" ELSE "wait",
     name |-> name, jobId |-> id, jobType |-> t, jobData |-> d,
     status |-> "pending", attempts |-> jo.attempts,
     backoffType |-> jo.backoff.type, backoffDelay |-> jo.backoff.delay,
     attemptsMade |-> 0, delay |-> delay, stalledCounter |-> 0]

\* publishJob(queueName, jobData, options)
PublishJob(name, id, t, d, o) == AddedJob(name, id, t, d, JobsOptions(o))

\* faulty variant: each job type is published to a queue of its own name
QueueOfJobType(t) == t

\* publishEmailJob: return publishJob('email', jobData, options), whatever
\* the jobType
QueueOf(t) == "email"

\* faulty variant: the message is given an id of its own, another one than
\* the id of the row
NewMsgOwnId(id, t, d) ==
    PublishJob(QueueOf(t), CHOOSE x \in Ids : x # id, t, d, NoOptions)

\* publishEmailJob: the JobData built from the CreateJobInput, handed to
\* publishJob('email', jobData, options) with options undefined, which adds it
\* with attempts 3 and exponential backoff of 2000 ms and no delay
NewMsg(id, t, d) == PublishJob(QueueOf(t), id, t, d, NoOptions)

RECURSIVE Pow2(_)
Pow2(n) == IF n <= 0 THEN 1 ELSE 2 * Pow2(n - 1)

\* exponential backoff: delay * 2^(attemptsMade - 1); fixed backoff: delay
BackoffDelay(m, made) ==
    IF m.backoffType = "exponential"
    THEN m.backoffDelay * Pow2(made - 1)
    ELSE m.backoffDelay

\* the broker's record of a failed attempt: retried after the backoff delay
\* while attempts remain, else moved to the failed set
MoveToFailed(m) ==
    LET made == m.attemptsMade + 1 IN
    IF made < m.attempts
    THEN [m EXCEPT !.state = "delayed", !.attemptsMade = made,
                   !.delay = BackoffDelay(m, made)]
    ELSE [m EXCEPT !.state = "failed", !.attemptsMade = made]

\* the broker's record of a successful attempt
MoveToCompleted(m) == [m EXCEPT !.state = "completed"]

\* a job whose holder is gone: back to the queue, or failed once it stalled
\* more often than allowed
MoveStalled(m) ==
    LET stalled == m.stalledCounter + 1 IN
    IF stalled > MaxStalledCount
    THEN [m EXCEPT !.state = "failed", !.stalledCounter = stalled]
    ELSE [m EXCEPT !.state = "wait", !.stalledCounter = stalled]

(* ------------------------------- Init --------------------------------- *)

NoBody == [jobType |-> "", jobData |-> ""]

\* the calls of shutdown(), one for each signal delivered
Calls == 1..MaxSignals

\* the worker process after its start: getDbClient() has created the pool,
\* and no signal has arrived
ProcInit ==
    /\ proc = "running"
    /\ pool = [ref |-> TRUE, state |-> "open"]
    /\ sdpc = [c \in Calls |-> "none"]

\* the GET /api/jobs being answered (one at a time): its search parameters ("" is a parameter that
\* is not given)
NoParams == [jobId |-> "", status |-> "", type |-> "", limit |-> "", offset |-> ""]

NoGet == [req |-> NoParams, status |-> 0, rows |-> << >>]

\* the only caller of the repository, POST /api/jobs, passes no options, and
\* no GET has been answered
Procs == {"app", "worker"}

\* the calls of closeDbConnection() and of closeQueues()
CloseCalls == 1..MaxCloses

\* no getDbClient() call and no getQueue() call has returned
NoPoolGot == [pool |-> 0, state |-> "none"]
NoQueueGot == [q |-> 0, closed |-> FALSE]

\* no closeDbConnection() call and no closeQueues() call has been made
NoCall == [at |-> "none", on |-> 0]

\* db/client and lib/queue right after the modules are loaded: let pool =
\* null, const queues = new Map()
ModulesLoaded ==
    /\ pools = << >>
    /\ poolRef = 0
    /\ pcl = [c \in CloseCalls |-> NoCall]
    /\ pgot = NoPoolGot
    /\ qobjs = << >>
    /\ cached = {}
    /\ qcl = [c \in CloseCalls |-> NoCall]
    /\ qgot = NoQueueGot
    /\ qsince = [n \in QueueNames |-> {}]

\* a local development environment
LibInit ==
    /\ cfg = [ssl |-> "", node |-> "",
              url |-> <<"postgresql://", "user@", "localhost", ":5432", "/jobs">>]
    /\ ModulesLoaded

\* the application after a first start-up that went well: DATABASE_URL is set
\* for both processes, the migration has run and is recorded, Next.js serves
StartInit ==
    /\ env = [p \in Procs |-> TRUE]
    /\ app = "serving"
    /\ mig = [table |-> TRUE, version |-> TRUE, objects |-> TRUE]
    /\ ran = {1}
    /\ starts = 1

SideInit ==
    /\ opts = [r \in Reqs |-> NoOptions]
    /\ got = NoGet
    /\ StartInit
    /\ LibInit

Init ==
    /\ jobs = << >>
    /\ queue = [r \in Reqs |-> NoMsg]
    /\ pc = [r \in Reqs |-> "start"]
    /\ body = [r \in Reqs |-> NoBody]
    /\ jobId = [r \in Reqs |-> NoJob]
    /\ resp = [r \in Reqs |-> 0]
    /\ wpc = [w \in Workers |-> "idle"]
    /\ wjob = [w \in Workers |-> NoJob]
    /\ werr = [w \in Workers |-> NULL]
    /\ execs = [r \in Reqs |-> 0]
    /\ limit = MaxDeliveries
    /\ ProcInit
    /\ SideInit

(* --------------------------- POST /api/jobs --------------------------- *)

\* return NextResponse.json(..., { status }): the request ends at `at`
Respond(r, status, at) ==
    /\ resp' = [resp EXCEPT ![r] = status]
    /\ pc' = [pc EXCEPT ![r] = at]

\* the request arrives and an invalid jobType is answered 400
PostInvalid(r) ==
    /\ app = "serving"
    /\ pc[r] = "start"
    /\ \E b \in Bodies :
         /\ ~IsValidJobType(b.jobType)
         /\ body' = [body EXCEPT ![r] = b]
    /\ Respond(r, 400, "invalid")
    /\ UNCHANGED <<jobs, queue, jobId, limit>>
    /\ UNCHANGED workVars
    /\ UNCHANGED procVars
    /\ UNCHANGED sideVars

\* getDbClient() finds DATABASE_URL and the INSERT finds the jobs table
StoreReady == env["app"] /\ mig.objects

\* the request arrives with a valid jobType and draws const jobId = randomUUID()
PostGenerate(r) ==
    /\ app = "serving"
    /\ pc[r] = "start"
    /\ \E b \in Bodies :
         /\ IsValidJobType(b.jobType)
         /\ body' = [body EXCEPT ![r] = b]
    /\ \E id \in Ids : jobId' = [jobId EXCEPT ![r] = id]
    /\ pc' = [pc EXCEPT ![r] = "insert"]
    /\ UNCHANGED <<jobs, queue, resp, limit>>
    /\ UNCHANGED workVars
    /\ UNCHANGED procVars
    /\ UNCHANGED sideVars

\* faulty variant: INSERT ... ON CONFLICT (id) DO UPDATE, which replaces the
\* row of an id that exists
PostInsertOkUpsert(r) ==
    /\ pc[r] = "insert"
    /\ StoreReady
    /\ body[r].jobType \in validJobTypes
    /\ jobs' = [x \in DOMAIN jobs \cup {jobId[r]} |->
                  IF x = jobId[r]
                  THEN NewRow(body[r].jobType, body[r].jobData, Now)
                  ELSE jobs[x]]
    /\ pc' = [pc EXCEPT ![r] = "publish"]
    /\ UNCHANGED <<queue, body, jobId, resp, limit>>
    /\ UNCHANGED workVars
    /\ UNCHANGED procVars
    /\ UNCHANGED sideVars

\* await db.query(INSERT ...) resolves: the row is there
PostInsertOk(r) ==
    /\ pc[r] = "insert"
    /\ StoreReady
    /\ InsertAccepted(jobId[r], body[r].jobType)
    /\ jobs' = [x \in DOMAIN jobs \cup {jobId[r]} |->
                  IF x = jobId[r]
                  THEN NewRow(body[r].jobType, body[r].jobData, Now)
                  ELSE jobs[x]]
    /\ pc' = [pc EXCEPT ![r] = "publish"]
    /\ UNCHANGED <<queue, body, jobId, resp, limit>>
    /\ UNCHANGED workVars
    /\ UNCHANGED procVars
    /\ UNCHANGED sideVars

\* faulty variant: the rejection of the INSERT is swallowed and the request
\* goes on to publish
PostInsertFailSwallowed(r) ==
    /\ pc[r] = "insert"
    /\ pc' = [pc EXCEPT ![r] = "publish"]
    /\ UNCHANGED <<jobs, queue, body, jobId, resp, limit>>
    /\ UNCHANGED workVars
    /\ UNCHANGED procVars
    /\ UNCHANGED sideVars

\* await db.query(INSERT ...) rejects (a constraint is violated, or the store
\* is unreachable): no row is written and the catch block answers 500
PostInsertFail(r) ==
    /\ pc[r] = "insert"
    /\ Respond(r, 500, "insertFailed")
    /\ UNCHANGED <<jobs, queue, body, jobId, limit>>
    /\ UNCHANGED workVars
    /\ UNCHANGED procVars
    /\ UNCHANGED sideVars

\* await publishEmailJob(createJobInput) resolves: the message is queued
PostPublishOk(r) ==
    /\ pc[r] = "publish"
    /\ queue' = [queue EXCEPT ![r] =
                   NewMsg(jobId[r], body[r].jobType, body[r].jobData)]
    /\ pc' = [pc EXCEPT ![r] = "respond"]
    /\ UNCHANGED <<jobs, body, jobId, resp, limit>>
    /\ UNCHANGED workVars
    /\ UNCHANGED procVars
    /\ UNCHANGED sideVars

\* faulty variant: the rejection of the enqueue is swallowed and the request
\* is answered 201
PostPublishFailAnswers201(r) ==
    /\ pc[r] = "publish"
    /\ Respond(r, 201, "publishFailed")
    /\ UNCHANGED <<jobs, queue, body, jobId, limit>>
    /\ UNCHANGED workVars
    /\ UNCHANGED procVars
    /\ UNCHANGED sideVars

\* await publishEmailJob(createJobInput) rejects: nothing is queued and the
\* catch block answers 500
PostPublishFail(r) ==
    /\ pc[r] = "publish"
    /\ Respond(r, 500, "publishFailed")
    /\ UNCHANGED <<jobs, queue, body, jobId, limit>>
    /\ UNCHANGED workVars
    /\ UNCHANGED procVars
    /\ UNCHANGED sideVars

\* return NextResponse.json({ success: true, jobId, ... }, { status: 201 })
PostRespond(r) ==
    /\ pc[r] = "respond"
    /\ Respond(r, 201, "created")
    /\ UNCHANGED <<jobs, queue, body, jobId, limit>>
    /\ UNCHANGED workVars
    /\ UNCHANGED procVars
    /\ UNCHANGED sideVars

(* ------------------------ worker: processEmailJob --------------------- *)

\* part_003: new Worker<JobData>('email', async (job) => { await
\* processEmailJob(job) }): the one queue the worker listens on, and the one
\* handler it runs
HandlerOf(w) == "email"

\* emailWorker.close() has been called: the Worker fetches no further job
Closing == \E c \in Calls : sdpc[c] # "none"

\* const { jobId, jobData } = job.data
HeldId(w) == queue[wjob[w]].jobId

StatusOf(id) == IF id \in DOMAIN jobs THEN jobs[id].status ELSE "absent"

\* the attempts a message has been taken for: those reported failed, those
\* abandoned, and the one in flight or reported completed
Deliveries(m) ==
    m.attemptsMade + m.stalledCounter
      + (IF m.state \in {"active", "completed"} THEN 1 ELSE 0)

RECURSIVE SumDeliveries(_)
SumDeliveries(S) ==
    IF S = {} THEN 0
    ELSE LET r == CHOOSE x \in S : TRUE
         IN Deliveries(queue[r]) + SumDeliveries(S \ {r})

\* faulty variant: the job is handed out without being locked, so it stays
\* in the waiting list for the next free processor
DeliverNoLock(w, r) ==
    /\ proc = "running"
    /\ wpc[w] = "idle"
    /\ queue[r].state = "wait"
    /\ wpc' = [wpc EXCEPT ![w] = "markProcessing"]
    /\ wjob' = [wjob EXCEPT ![w] = r]
    /\ UNCHANGED <<jobs, queue, werr, execs, limit>>
    /\ UNCHANGED pubVars
    /\ UNCHANGED procVars
    /\ UNCHANGED sideVars

\* the Worker takes a waiting job: it becomes active and the processor starts
Deliver(w, r) ==
    /\ proc = "running"
    /\ wpc[w] = "idle"
    /\ queue[r].state = "wait"
    /\ queue[r].name = HandlerOf(w)
    /\ ~Closing
    /\ SumDeliveries(Reqs) < limit
    /\ queue' = [queue EXCEPT ![r].state = "active"]
    /\ wpc' = [wpc EXCEPT ![w] = "markProcessing"]
    /\ wjob' = [wjob EXCEPT ![w] = r]
    /\ UNCHANGED <<jobs, werr, execs, limit>>
    /\ UNCHANGED pubVars
    /\ UNCHANGED procVars
    /\ UNCHANGED sideVars

\* await db.query(UPDATE ... 'processing') resolves and the try block is
\* entered: the simulated work, then the next db.query
MarkProcessingOk(w) ==
    /\ proc = "running"
    /\ wpc[w] = "markProcessing"
    /\ jobs' = UpdateRow(HeldId(w), SetProcessing(jobs[HeldId(w)]))
    /\ wpc' = [wpc EXCEPT ![w] = "try"]
    /\ execs' = [execs EXCEPT ![wjob[w]] = @ + 1]
    /\ UNCHANGED <<queue, wjob, werr, limit>>
    /\ UNCHANGED pubVars
    /\ UNCHANGED procVars
    /\ UNCHANGED sideVars

\* await db.query(UPDATE ... 'processing') rejects: it is outside the try
\* block, so processEmailJob rejects with no further store write
MarkProcessingFail(w) ==
    /\ proc = "running"
    /\ wpc[w] = "markProcessing"
    /\ wpc' = [wpc EXCEPT ![w] = "rejected"]
    /\ werr' = [werr EXCEPT ![w] = QueryError]
    /\ UNCHANGED <<jobs, queue, wjob, execs, limit>>
    /\ UNCHANGED pubVars
    /\ UNCHANGED procVars
    /\ UNCHANGED sideVars

\* await db.query(UPDATE ... 'completed') resolves: processEmailJob resolves
MarkCompletedOk(w) ==
    /\ proc = "running"
    /\ wpc[w] = "try"
    /\ jobs' = UpdateRow(HeldId(w), SetCompleted(jobs[HeldId(w)]))
    /\ wpc' = [wpc EXCEPT ![w] = "resolved"]
    /\ UNCHANGED <<queue, wjob, werr, execs, limit>>
    /\ UNCHANGED pubVars
    /\ UNCHANGED procVars
    /\ UNCHANGED sideVars

\* the try block throws (its db.query rejects): the catch block is entered
MarkCompletedFail(w) ==
    /\ proc = "running"
    /\ wpc[w] = "try"
    /\ wpc' = [wpc EXCEPT ![w] = "catch"]
    /\ werr' = [werr EXCEPT ![w] = QueryError]
    /\ UNCHANGED <<jobs, queue, wjob, execs, limit>>
    /\ UNCHANGED pubVars
    /\ UNCHANGED procVars
    /\ UNCHANGED sideVars

\* catch: await db.query(UPDATE ... 'failed', errorMessage) resolves; throw error
MarkFailedOk(w) ==
    /\ proc = "running"
    /\ wpc[w] = "catch"
    /\ jobs' = UpdateRow(HeldId(w), SetFailed(jobs[HeldId(w)], werr[w]))
    /\ wpc' = [wpc EXCEPT ![w] = "rejected"]
    /\ UNCHANGED <<queue, wjob, werr, execs, limit>>
    /\ UNCHANGED pubVars
    /\ UNCHANGED procVars
    /\ UNCHANGED sideVars

\* catch: await db.query(UPDATE ... 'failed', errorMessage) rejects: that
\* rejection leaves the catch block
MarkFailedFail(w) ==
    /\ proc = "running"
    /\ wpc[w] = "catch"
    /\ wpc' = [wpc EXCEPT ![w] = "rejected"]
    /\ UNCHANGED <<jobs, queue, wjob, werr, execs, limit>>
    /\ UNCHANGED pubVars
    /\ UNCHANGED procVars
    /\ UNCHANGED sideVars

\* the processor is free for the next job
Release(w) ==
    /\ wpc' = [wpc EXCEPT ![w] = "idle"]
    /\ wjob' = [wjob EXCEPT ![w] = NoJob]
    /\ werr' = [werr EXCEPT ![w] = NULL]

\* the processor's promise resolved: the Worker reports the job completed
Completed(w) ==
    /\ proc = "running"
    /\ wpc[w] = "resolved"
    /\ queue' = [queue EXCEPT ![wjob[w]] = MoveToCompleted(@)]
    /\ Release(w)
    /\ UNCHANGED <<jobs, execs, limit>>
    /\ UNCHANGED pubVars
    /\ UNCHANGED procVars
    /\ UNCHANGED sideVars

\* the processor's promise rejected: the Worker reports the attempt failed
Failed(w) ==
    /\ proc = "running"
    /\ wpc[w] = "rejected"
    /\ queue' = [queue EXCEPT ![wjob[w]] = MoveToFailed(@)]
    /\ Release(w)
    /\ UNCHANGED <<jobs, execs, limit>>
    /\ UNCHANGED pubVars
    /\ UNCHANGED procVars
    /\ UNCHANGED sideVars

\* a delayed job's backoff delay has passed
Promote(r) ==
    /\ queue[r].state = "delayed"
    /\ queue' = [queue EXCEPT ![r].state = "wait"]
    /\ UNCHANGED <<jobs, limit>>
    /\ UNCHANGED pubVars
    /\ UNCHANGED workVars
    /\ UNCHANGED procVars
    /\ UNCHANGED sideVars

\* the worker process exits with a job in flight (process.exit in the signal
\* handler, or a kill): the job stalls and the broker takes it back
Exit(w) ==
    /\ proc = "running"
    /\ wpc[w] # "idle"
    /\ queue' = [queue EXCEPT ![wjob[w]] = MoveStalled(@)]
    /\ Release(w)
    /\ UNCHANGED <<jobs, execs, limit>>
    /\ UNCHANGED pubVars
    /\ UNCHANGED procVars
    /\ UNCHANGED sideVars

(* ------------------------------- Next --------------------------------- *)

Publisher ==
    \E r \in Reqs :
        \/ PostInvalid(r)
        \/ PostGenerate(r)
        \/ PostInsertOk(r)
        \/ PostInsertFail(r)
        \/ PostPublishOk(r)
        \/ PostPublishFail(r)
        \/ PostRespond(r)

Worker ==
    \E w \in Workers :
        \/ \E r \in Reqs : Deliver(w, r)
        \/ MarkProcessingOk(w)
        \/ MarkProcessingFail(w)
        \/ MarkCompletedOk(w)
        \/ MarkCompletedFail(w)
        \/ MarkFailedOk(w)
        \/ MarkFailedFail(w)
        \/ Completed(w)
        \/ Failed(w)
        \/ Exit(w)

Broker == \E r \in Reqs : Promote(r)

Next == Publisher \/ Worker \/ Broker

Spec == Init /\ [][Next]_vars

(* ------------ the workers on one job that has been submitted ----------- *)

\* the attempts one message can be taken for: DefaultAttempts failed ones and
\* MaxStalledCount + 1 abandoned ones
AllDeliveries == DefaultAttempts + MaxStalledCount + 1

\* the state after one POST /api/jobs has answered 201 and before a worker
\* has taken its message; the other request has not arrived
InitWorker ==
    \E id \in Ids, b \in Bodies :
       LET r1 == CHOOSE r \in Reqs : TRUE IN
       /\ IsValidJobType(b.jobType)
       /\ jobs = [x \in {id} |-> NewRow(b.jobType, b.jobData, 1)]
       /\ queue = [r \in Reqs |->
                     IF r = r1 THEN NewMsg(id, b.jobType, b.jobData) ELSE NoMsg]
       /\ pc = [r \in Reqs |-> IF r = r1 THEN "created" ELSE "start"]
       /\ body = [r \in Reqs |-> IF r = r1 THEN b ELSE NoBody]
       /\ jobId = [r \in Reqs |-> IF r = r1 THEN id ELSE NoJob]
       /\ resp = [r \in Reqs |-> IF r = r1 THEN 201 ELSE 0]
       /\ wpc = [w \in Workers |-> "idle"]
       /\ wjob = [w \in Workers |-> NoJob]
       /\ werr = [w \in Workers |-> NULL]
       /\ execs = [r \in Reqs |-> 0]
       /\ limit = AllDeliveries
       /\ ProcInit
       /\ SideInit

NextWorker == Worker \/ Broker

SpecWorker == InitWorker /\ [][NextWorker]_vars

(* ------ the whole system while store and broker stay available -------- *)

\* no db.query and no queue.add rejects for lack of a connection, no worker
\* process exits, and no delivery is held back
InitLive ==
    /\ jobs = << >>
    /\ queue = [r \in Reqs |-> NoMsg]
    /\ pc = [r \in Reqs |-> "start"]
    /\ body = [r \in Reqs |-> NoBody]
    /\ jobId = [r \in Reqs |-> NoJob]
    /\ resp = [r \in Reqs |-> 0]
    /\ wpc = [w \in Workers |-> "idle"]
    /\ wjob = [w \in Workers |-> NoJob]
    /\ werr = [w \in Workers |-> NULL]
    /\ execs = [r \in Reqs |-> 0]
    /\ limit = Cardinality(Reqs)
    /\ ProcInit
    /\ SideInit

\* the INSERT still rejects when it violates the primary key
PublisherLive ==
    \E r \in Reqs :
        \/ PostInvalid(r)
        \/ PostGenerate(r)
        \/ PostInsertOk(r)
        \/ ~InsertAccepted(jobId[r], body[r].jobType) /\ PostInsertFail(r)
        \/ PostPublishOk(r)
        \/ PostRespond(r)

\* the steps of one processor slot whose store queries resolve
WorkerLive(w) ==
    \/ \E r \in Reqs : Deliver(w, r)
    \/ MarkProcessingOk(w)
    \/ MarkCompletedOk(w)
    \/ Completed(w)

NextLive == PublisherLive \/ \E w \in Workers : WorkerLive(w)

\* a running worker process keeps taking steps: each slot that can go on
\* eventually does
SpecLive ==
    /\ InitLive
    /\ [][NextLive]_vars
    /\ \A w \in Workers : WF_vars(WorkerLive(w))

(* ------------------ the worker process and its signals ---------------- *)

\* a processor slot that holds a job
Busy(w) == wpc[w] # "idle"

\* the process is gone: its handler executions are abandoned where they are
\* and the broker takes their jobs back as stalled
ExitProcess(code) ==
    /\ proc' = code
    /\ queue' = [r \in Reqs |->
                   IF \E w \in Workers : Busy(w) /\ wjob[w] = r
                   THEN MoveStalled(queue[r]) ELSE queue[r]]
    /\ wpc' = [w \in Workers |-> "idle"]
    /\ wjob' = [w \in Workers |-> NoJob]
    /\ werr' = [w \in Workers |-> NULL]

\* part_002: process.on('SIGTERM' | 'SIGINT', () => { process.exit(0) }).
\* Where these listeners are registered (the processor module is imported
\* before the entry point registers its own) they run first, on the first
\* signal.
SignalExit ==
    /\ proc = "running"
    /\ ~Closing
    /\ ExitProcess("exit0")
    /\ UNCHANGED <<jobs, execs, limit, pool, sdpc>>
    /\ UNCHANGED pubVars
    /\ UNCHANGED sideVars

\* part_003: process.on('SIGTERM' | 'SIGINT', () => { shutdown() }): the call
\* runs up to its first await, emailWorker.close()
SignalShutdown(c) ==
    /\ proc = "running"
    /\ sdpc[c] = "none"
    /\ \A d \in Calls : d < c => sdpc[d] # "none"
    /\ sdpc' = [sdpc EXCEPT ![c] = "awaitClose"]
    /\ UNCHANGED <<jobs, queue, limit, proc, pool>>
    /\ UNCHANGED pubVars
    /\ UNCHANGED workVars
    /\ UNCHANGED sideVars

\* await emailWorker.close() resolves once no job is in flight, and
\* closeDbConnection() runs up to its await: if (pool) { await pool.end() ...
\* A Pool whose end() was called before rejects the second call.
CloseResolved(c) ==
    /\ proc = "running"
    /\ sdpc[c] = "awaitClose"
    /\ \A w \in Workers : ~Busy(w)
    /\ IF ~pool.ref
       THEN /\ sdpc' = [sdpc EXCEPT ![c] = "exit"]
            /\ pool' = pool
       ELSE IF pool.state = "open"
       THEN /\ sdpc' = [sdpc EXCEPT ![c] = "awaitEnd"]
            /\ pool' = [pool EXCEPT !.state = "ending"]
       ELSE /\ sdpc' = [sdpc EXCEPT ![c] = "rejected"]
            /\ pool' = pool
    /\ UNCHANGED <<jobs, queue, limit, proc>>
    /\ UNCHANGED pubVars
    /\ UNCHANGED workVars
    /\ UNCHANGED sideVars

\* await pool.end() resolves; pool = null; closeDbConnection() returns
EndResolved(c) ==
    /\ proc = "running"
    /\ sdpc[c] = "awaitEnd"
    /\ pool' = [ref |-> FALSE, state |-> "ended"]
    /\ sdpc' = [sdpc EXCEPT ![c] = "exit"]
    /\ UNCHANGED <<jobs, queue, limit, proc>>
    /\ UNCHANGED pubVars
    /\ UNCHANGED workVars
    /\ UNCHANGED sideVars

\* console.log('Worker shut down complete'); process.exit(0)
ShutdownExit(c) ==
    /\ proc = "running"
    /\ sdpc[c] = "exit"
    /\ ExitProcess("exit0")
    /\ UNCHANGED <<jobs, execs, limit, pool, sdpc>>
    /\ UNCHANGED pubVars
    /\ UNCHANGED sideVars

\* shutdown() rejected and nothing awaits it: the runtime ends the process
\* on the unhandled rejection
RejectionCrash(c) ==
    /\ proc = "running"
    /\ sdpc[c] = "rejected"
    /\ ExitProcess("crashed")
    /\ UNCHANGED <<jobs, execs, limit, pool, sdpc>>
    /\ UNCHANGED pubVars
    /\ UNCHANGED sideVars

\* shutdown() rejected and nothing awaits it: the runtime only warns
RejectionWarned(c) ==
    /\ proc = "running"
    /\ sdpc[c] = "rejected"
    /\ sdpc' = [sdpc EXCEPT ![c] = "done"]
    /\ UNCHANGED <<jobs, queue, limit, proc, pool>>
    /\ UNCHANGED pubVars
    /\ UNCHANGED workVars
    /\ UNCHANGED sideVars

\* the steps of a processor slot while its process runs
WorkerStep(w) ==
    \/ \E r \in Reqs : Deliver(w, r)
    \/ MarkProcessingOk(w)
    \/ MarkProcessingFail(w)
    \/ MarkCompletedOk(w)
    \/ MarkCompletedFail(w)
    \/ MarkFailedOk(w)
    \/ MarkFailedFail(w)
    \/ Completed(w)
    \/ Failed(w)

Shutdown ==
    \/ SignalExit
    \/ \E c \in Calls :
          \/ SignalShutdown(c)
          \/ CloseResolved(c)
          \/ EndResolved(c)
          \/ ShutdownExit(c)
          \/ RejectionCrash(c)
          \/ RejectionWarned(c)

\* the state after every request has answered 201, each with an id of its
\* own, and before a worker has taken a message
InitShutdown ==
    \E b \in Bodies :
       LET idOf == CHOOSE f \in [Reqs -> Ids] :
                      \A q, r \in Reqs : q # r => f[q] # f[r] IN
       /\ IsValidJobType(b.jobType)
       /\ jobs = [x \in {idOf[r] : r \in Reqs} |->
                    NewRow(b.jobType, b.jobData,
                           IF x = idOf[CHOOSE r \in Reqs : TRUE] THEN 1 ELSE 2)]
       /\ queue = [r \in Reqs |-> NewMsg(idOf[r], b.jobType, b.jobData)]
       /\ pc = [r \in Reqs |-> "created"]
       /\ body = [r \in Reqs |-> b]
       /\ jobId = idOf
       /\ resp = [r \in Reqs |-> 201]
       /\ wpc = [w \in Workers |-> "idle"]
       /\ wjob = [w \in Workers |-> NoJob]
       /\ werr = [w \in Workers |-> NULL]
       /\ execs = [r \in Reqs |-> 0]
       /\ limit = MaxDeliveries
       /\ ProcInit
       /\ SideInit

NextShutdown == (\E w \in Workers : WorkerStep(w)) \/ Broker \/ Shutdown

SpecShutdown == InitShutdown /\ [][NextShutdown]_vars

(* ---------------------------- GET /api/jobs --------------------------- *)

\* the requests sent: by id (an id that may have a row, or a string that is
\* no UUID), and lists with and without filters, limit and offset
GetRequests ==
    [jobId : Ids \cup {"not-a-uuid"}, status : {""}, type : {""},
     limit : {""}, offset : {""}]
    \cup
    [jobId : {""}, status : {"", "completed"}, type : {"", "report"},
     limit : {"", "1", "abc", "-1"}, offset : {"", "1"}]

\* parseInt's result for a string that is no number
NaN == -1000

\* parseInt(s, 10) on the strings the requests carry
ParseInt(s) ==
    CASE s = "0" -> 0
      [] s = "1" -> 1
      [] s = "2" -> 2
      [] s = "50" -> 50
      [] s = "-1" -> -1
      [] OTHER -> NaN

\* searchParams.get(name) || dflt: the default for a missing or empty value
OrDefault(s, dflt) == IF s = "" THEN dflt ELSE s

\* the id column is of type UUID: a parameter that is no UUID is an error
IsUuid(x) == x \in Ids

\* a row as the response carries it
Entry(id) == [id |-> id, row |-> jobs[id]]

\* faulty variant: ORDER BY created_at (ascending)
RECURSIVE ListOrderAsc(_)
ListOrderAsc(S) ==
    IF S = {} THEN << >>
    ELSE LET id == CHOOSE x \in S :
                      \A y \in S : jobs[x].created_at <= jobs[y].created_at
         IN <<Entry(id)>> \o ListOrderAsc(S \ {id})

\* ORDER BY created_at DESC
RECURSIVE ListOrder(_)
ListOrder(S) ==
    IF S = {} THEN << >>
    ELSE LET id == CHOOSE x \in S :
                      \A y \in S : jobs[x].created_at >= jobs[y].created_at
         IN <<Entry(id)>> \o ListOrder(S \ {id})

\* LIMIT lim OFFSET off
Page(seq, lim, off) ==
    LET last == IF off + lim < Len(seq) THEN off + lim ELSE Len(seq)
    IN IF off + 1 > last THEN << >> ELSE SubSeq(seq, off + 1, last)

\* if (jobId): SELECT * FROM jobs WHERE id = $1; no row is answered 404, a
\* rejected query 500
GetById(q) ==
    /\ app = "serving"
    /\ got = NoGet
    /\ q.jobId # ""
    /\ got' = IF ~StoreReady \/ ~IsUuid(q.jobId)
              THEN [req |-> q, status |-> 500, rows |-> << >>]
              ELSE IF q.jobId \notin DOMAIN jobs
              THEN [req |-> q, status |-> 404, rows |-> << >>]
              ELSE [req |-> q, status |-> 200, rows |-> <<Entry(q.jobId)>>]
    /\ UNCHANGED <<jobs, queue, limit, opts>>
    /\ UNCHANGED pubVars
    /\ UNCHANGED workVars
    /\ UNCHANGED procVars
    /\ UNCHANGED startVars
    /\ UNCHANGED libVars

\* SELECT * FROM jobs WHERE 1=1 [AND status = $1] ORDER BY created_at DESC
\* LIMIT $n OFFSET $n+1: only the status parameter is read as a filter; a
\* limit or offset that is NaN or negative makes the query reject (500)
GetList(q) ==
    /\ app = "serving"
    /\ got = NoGet
    /\ q.jobId = ""
    /\ LET lim == ParseInt(OrDefault(q.limit, "50"))
           off == ParseInt(OrDefault(q.offset, "0"))
           match == {id \in DOMAIN jobs :
                       q.status = "" \/ jobs[id].status = q.status}
       IN got' = IF ~StoreReady \/ lim = NaN \/ lim < 0 \/ off = NaN \/ off < 0
                 THEN [req |-> q, status |-> 500, rows |-> << >>]
                 ELSE [req |-> q, status |-> 200,
                       rows |-> Page(ListOrder(match), lim, off)]
    /\ UNCHANGED <<jobs, queue, limit, opts>>
    /\ UNCHANGED pubVars
    /\ UNCHANGED workVars
    /\ UNCHANGED procVars
    /\ UNCHANGED startVars
    /\ UNCHANGED libVars

\* the client has read the response; the next GET can be sent
GetDone ==
    /\ got # NoGet
    /\ got' = NoGet
    /\ UNCHANGED <<jobs, queue, limit, opts>>
    /\ UNCHANGED pubVars
    /\ UNCHANGED workVars
    /\ UNCHANGED procVars
    /\ UNCHANGED startVars
    /\ UNCHANGED libVars

Get == (\E q \in GetRequests : GetById(q) \/ GetList(q)) \/ GetDone

NextGet == NextLive \/ Get

\* the publisher, the workers and GET requests, with the store available
SpecGet == InitLive /\ [][NextGet]_vars

(* ------------------- publishJob called with options ------------------- *)

\* a caller other than the route: any options, any JobData
InitPublish ==
    \E b \in Bodies :
       /\ IsValidJobType(b.jobType)
       /\ jobs = << >>
       /\ queue = [r \in Reqs |-> NoMsg]
       /\ pc = [r \in Reqs |-> "start"]
       /\ body = [r \in Reqs |-> b]
       /\ jobId \in [Reqs -> Ids]
       /\ resp = [r \in Reqs |-> 0]
       /\ wpc = [w \in Workers |-> "idle"]
       /\ wjob = [w \in Workers |-> NoJob]
       /\ werr = [w \in Workers |-> NULL]
       /\ execs = [r \in Reqs |-> 0]
       /\ limit = MaxDeliveries
       /\ ProcInit
       /\ opts \in [Reqs -> Options]
       /\ got = NoGet
       /\ StartInit
       /\ LibInit

\* await publishJob('email', jobData, options) resolves
PublishCall(r) ==
    /\ queue[r] = NoMsg
    /\ queue' = [queue EXCEPT ![r] =
                   PublishJob("email", jobId[r], body[r].jobType,
                              body[r].jobData, opts[r])]
    /\ UNCHANGED <<jobs, limit>>
    /\ UNCHANGED pubVars
    /\ UNCHANGED workVars
    /\ UNCHANGED procVars
    /\ UNCHANGED sideVars

NextPublish == (\E r \in Reqs : PublishCall(r)) \/ Broker

SpecPublish == InitPublish /\ [][NextPublish]_vars

(* ------------- the workers on a message that has no row --------------- *)

\* publishEmailJob is exported and adds whatever jobId its caller passes, and
\* the jobs table and the Redis queue are separate stores with separate
\* volumes: the state in which the queue holds a message whose jobId has no
\* row, whatever other rows the table has
InitOrphan ==
    \E id \in Ids, b \in Bodies :
    \E S \in SUBSET (Ids \ {id}) :
       LET r1 == CHOOSE r \in Reqs : TRUE IN
       /\ IsValidJobType(b.jobType)
       /\ jobs = [x \in S |-> NewRow(b.jobType, b.jobData, 1)]
       /\ queue = [r \in Reqs |->
                     IF r = r1 THEN NewMsg(id, b.jobType, b.jobData) ELSE NoMsg]
       /\ pc = [r \in Reqs |-> "start"]
       /\ body = [r \in Reqs |-> NoBody]
       /\ jobId = [r \in Reqs |-> NoJob]
       /\ resp = [r \in Reqs |-> 0]
       /\ wpc = [w \in Workers |-> "idle"]
       /\ wjob = [w \in Workers |-> NoJob]
       /\ werr = [w \in Workers |-> NULL]
       /\ execs = [r \in Reqs |-> 0]
       /\ limit = AllDeliveries
       /\ ProcInit
       /\ SideInit

SpecOrphan == InitOrphan /\ [][NextWorker]_vars

(* ------------------- start-up: start script and worker ---------------- *)

\* what a step of the start script leaves alone
ScriptFrame ==
    /\ UNCHANGED <<jobs, queue, limit, opts, got, env>>
    /\ UNCHANGED libVars
    /\ UNCHANGED pubVars
    /\ UNCHANGED workVars
    /\ UNCHANGED procVars

\* runMigrations: if (!connectionString) { console.error('DATABASE_URL not
\* set, skipping migrations'); return; } and start() goes on to spawn
ScriptSkip ==
    /\ app = "script"
    /\ ~env["app"]
    /\ app' = "spawn"
    /\ UNCHANGED <<mig, ran, starts>>
    /\ ScriptFrame

\* await pool.query(CREATE TABLE IF NOT EXISTS schema_migrations ...) resolves
ScriptCreateTable ==
    /\ app = "script"
    /\ env["app"]
    /\ mig' = [mig EXCEPT !.table = TRUE]
    /\ app' = "select"
    /\ UNCHANGED <<ran, starts>>
    /\ ScriptFrame

\* SELECT version FROM schema_migrations WHERE version = $1 resolves:
\* if (result.rows.length === 0) run the migration, else 'already applied'
ScriptSelect ==
    /\ app = "select"
    /\ app' = IF mig.version THEN "endPool" ELSE "runSql"
    /\ UNCHANGED <<mig, ran, starts>>
    /\ ScriptFrame

\* await pool.query(migrationSQL): the file is one multi-statement query, so
\* it takes effect as a whole or not at all. CREATE TRIGGER has no IF NOT
\* EXISTS: on a database that has the objects it rejects, and the catch block
\* logs the error and lets the application start
ScriptRunSql ==
    /\ app = "runSql"
    /\ ran' = ran \cup {starts}
    /\ IF mig.objects
       THEN /\ mig' = mig
            /\ app' = "spawn"
       ELSE /\ mig' = [mig EXCEPT !.objects = TRUE]
            /\ app' = "record"
    /\ UNCHANGED starts
    /\ ScriptFrame

\* INSERT INTO schema_migrations (version) VALUES ($1) resolves
ScriptRecord ==
    /\ app = "record"
    /\ mig' = [mig EXCEPT !.version = TRUE]
    /\ app' = "endPool"
    /\ UNCHANGED <<ran, starts>>
    /\ ScriptFrame

\* await pool.end()
ScriptEndPool ==
    /\ app = "endPool"
    /\ app' = "spawn"
    /\ UNCHANGED <<mig, ran, starts>>
    /\ ScriptFrame

\* faulty variant: the rejection is not caught, start() rejects and the
\* script ends without spawning Next.js
ScriptQueryFailExit ==
    /\ \/ app = "script" /\ env["app"]
       \/ app \in {"select", "runSql", "record"}
    /\ app' = "exited"
    /\ UNCHANGED <<mig, ran, starts>>
    /\ ScriptFrame

\* one of the awaited queries rejects before it takes effect (the database is
\* unreachable, or the connection is lost): catch (error) { console.error(
\* 'Migration error:', error); console.log('Continuing with app startup...') }
ScriptQueryFail ==
    /\ \/ app = "script" /\ env["app"]
       \/ app \in {"select", "runSql", "record"}
    /\ app' = "spawn"
    /\ UNCHANGED <<mig, ran, starts>>
    /\ ScriptFrame

\* start(): after runMigrations() has returned, spawn('npm', ['start']):
\* Next.js serves requests
ScriptSpawn ==
    /\ app = "spawn"
    /\ app' = "serving"
    /\ UNCHANGED <<mig, ran, starts>>
    /\ ScriptFrame

StartScript ==
    \/ ScriptSkip
    \/ ScriptCreateTable
    \/ ScriptSelect
    \/ ScriptRunSql
    \/ ScriptRecord
    \/ ScriptEndPool
    \/ ScriptQueryFail
    \/ ScriptSpawn

\* the application is stopped and started again against the same database
AppRestart ==
    /\ app = "serving"
    /\ starts < MaxStarts
    /\ app' = "script"
    /\ starts' = starts + 1
    /\ UNCHANGED <<mig, ran>>
    /\ ScriptFrame

\* the worker's entry point: try { getDbClient() } catch { process.exit(1) };
\* getDbClient() throws when DATABASE_URL is not set and creates the pool
\* otherwise
WorkerStart ==
    /\ proc = "starting"
    /\ IF env["worker"]
       THEN /\ proc' = "running"
            /\ pool' = [ref |-> TRUE, state |-> "open"]
       ELSE /\ proc' = "exit1"
            /\ pool' = pool
    /\ UNCHANGED <<jobs, queue, limit, sdpc>>
    /\ UNCHANGED pubVars
    /\ UNCHANGED workVars
    /\ UNCHANGED sideVars

\* both processes are started on a fresh database, each with or without
\* DATABASE_URL
InitStart ==
    /\ jobs = << >>
    /\ queue = [r \in Reqs |-> NoMsg]
    /\ pc = [r \in Reqs |-> "start"]
    /\ body = [r \in Reqs |-> NoBody]
    /\ jobId = [r \in Reqs |-> NoJob]
    /\ resp = [r \in Reqs |-> 0]
    /\ wpc = [w \in Workers |-> "idle"]
    /\ wjob = [w \in Workers |-> NoJob]
    /\ werr = [w \in Workers |-> NULL]
    /\ execs = [r \in Reqs |-> 0]
    /\ limit = Cardinality(Reqs)
    /\ proc = "starting"
    /\ pool = [ref |-> FALSE, state |-> "none"]
    /\ sdpc = [c \in Calls |-> "none"]
    /\ opts = [r \in Reqs |-> NoOptions]
    /\ got = NoGet
    /\ env \in [Procs -> BOOLEAN]
    /\ app = "script"
    /\ mig = [table |-> FALSE, version |-> FALSE, objects |-> FALSE]
    /\ ran = {}
    /\ starts = 1
    /\ LibInit

NextStart ==
    \/ StartScript
    \/ WorkerStart
    \/ Publisher
    \/ \E w \in Workers : WorkerLive(w)

\* one start-up of the application and of the worker, then requests and jobs
SpecStart == InitStart /\ [][NextStart]_vars

\* the application's first start-up on a fresh database, with or without
\* DATABASE_URL
InitMigrate ==
    /\ jobs = << >>
    /\ queue = [r \in Reqs |-> NoMsg]
    /\ pc = [r \in Reqs |-> "start"]
    /\ body = [r \in Reqs |-> NoBody]
    /\ jobId = [r \in Reqs |-> NoJob]
    /\ resp = [r \in Reqs |-> 0]
    /\ wpc = [w \in Workers |-> "idle"]
    /\ wjob = [w \in Workers |-> NoJob]
    /\ werr = [w \in Workers |-> NULL]
    /\ execs = [r \in Reqs |-> 0]
    /\ limit = Cardinality(Reqs)
    /\ ProcInit
    /\ opts = [r \in Reqs |-> NoOptions]
    /\ got = NoGet
    /\ env \in {e \in [Procs -> BOOLEAN] : e["worker"]}
    /\ app = "script"
    /\ mig = [table |-> FALSE, version |-> FALSE, objects |-> FALSE]
    /\ ran = {}
    /\ starts = 1
    /\ LibInit

NextMigrate == StartScript \/ AppRestart

\* sequential start-ups of the application against one database
SpecMigrate == InitMigrate /\ [][NextMigrate]_vars

\* the start script keeps running: each awaited query settles and each
\* continuation is run
SpecMigrateLive ==
    /\ InitMigrate
    /\ [][NextMigrate]_vars
    /\ WF_vars(StartScript)

(* ------------- db/client: getDbClient and closeDbConnection ----------- *)

\* what a call into db/client or lib/queue leaves alone
LibFrame ==
    /\ UNCHANGED <<jobs, queue, limit, opts, got>>
    /\ UNCHANGED pubVars
    /\ UNCHANGED workVars
    /\ UNCHANGED procVars
    /\ UNCHANGED startVars

\* String.prototype.includes on strings written as sequences of parts
Includes(str, pat) ==
    \E i \in 1..(Len(str) - Len(pat) + 1) :
       SubSeq(str, i, i + Len(pat) - 1) = pat

\* connectionString.includes('localhost') || .includes('127.0.0.1') ||
\* .includes('postgres:5432')
IsLocalConnection(url) ==
    \/ Includes(url, <<"localhost">>)
    \/ Includes(url, <<"127.0.0.1">>)
    \/ Includes(url, <<"postgres", ":5432">>)

\* faulty variant: ssl: process.env.NODE_ENV === 'production' ? {...} : false
SslConfigByNodeEnv(c) == c.node = "production"

\* sslConfig: TRUE is { rejectUnauthorized: false }, FALSE is false
SslConfig(c) ==
    IF c.ssl = "true" \/ c.ssl = "1" THEN TRUE
    ELSE IF IsLocalConnection(c.url) THEN FALSE
    ELSE IF c.node = "production" THEN TRUE
    ELSE FALSE

\* getDbClient(): if (!pool) { throw without DATABASE_URL, else pool = new
\* Pool({ connectionString, ssl: sslConfig }) }; return pool
GetDbClient ==
    /\ IF poolRef # 0
       THEN /\ pgot' = [pool |-> poolRef, state |-> pools[poolRef].state]
            /\ UNCHANGED <<pools, poolRef>>
       ELSE IF cfg.url = << >>
       THEN /\ pgot' = [pool |-> 0, state |-> "threw"]
            /\ UNCHANGED <<pools, poolRef>>
       ELSE /\ Len(pools) < MaxPools
            /\ pools' = Append(pools, [state |-> "open", ssl |-> SslConfig(cfg)])
            /\ poolRef' = Len(pools) + 1
            /\ pgot' = [pool |-> Len(pools) + 1, state |-> "open"]
    /\ UNCHANGED <<cfg, pcl>>
    /\ UNCHANGED queueVars
    /\ LibFrame

\* closeDbConnection() up to its await: if (pool) { await pool.end() ...
\* A Pool whose end() was called before rejects the call.
CloseDbConnection(c) ==
    /\ pcl[c].at = "none"
    /\ \A d \in CloseCalls : d < c => pcl[d].at # "none"
    /\ IF poolRef = 0
       THEN /\ pcl' = [pcl EXCEPT ![c] = [at |-> "done", on |-> 0]]
            /\ pools' = pools
       ELSE IF pools[poolRef].state = "open"
       THEN /\ pcl' = [pcl EXCEPT ![c] = [at |-> "awaitEnd", on |-> poolRef]]
            /\ pools' = [pools EXCEPT ![poolRef].state = "ending"]
       ELSE /\ pcl' = [pcl EXCEPT ![c] = [at |-> "rejected", on |-> poolRef]]
            /\ pools' = pools
    /\ UNCHANGED <<cfg, poolRef, pgot>>
    /\ UNCHANGED queueVars
    /\ LibFrame

\* await pool.end() resolves; pool = null
PoolEndResolved(c) ==
    /\ pcl[c].at = "awaitEnd"
    /\ pools' = [pools EXCEPT ![pcl[c].on].state = "ended"]
    /\ poolRef' = 0
    /\ pcl' = [pcl EXCEPT ![c].at = "done"]
    /\ UNCHANGED <<cfg, pgot>>
    /\ UNCHANGED queueVars
    /\ LibFrame

\* no request, no job, a running worker, an application that serves
SystemIdle ==
    /\ jobs = << >>
    /\ queue = [r \in Reqs |-> NoMsg]
    /\ pc = [r \in Reqs |-> "start"]
    /\ body = [r \in Reqs |-> NoBody]
    /\ jobId = [r \in Reqs |-> NoJob]
    /\ resp = [r \in Reqs |-> 0]
    /\ wpc = [w \in Workers |-> "idle"]
    /\ wjob = [w \in Workers |-> NoJob]
    /\ werr = [w \in Workers |-> NULL]
    /\ execs = [r \in Reqs |-> 0]
    /\ limit = MaxDeliveries
    /\ ProcInit
    /\ opts = [r \in Reqs |-> NoOptions]
    /\ got = NoGet
    /\ StartInit

\* a process that has loaded db/client, in any environment
InitPool ==
    /\ SystemIdle
    /\ cfg \in [ssl : DatabaseSsls, node : NodeEnvs, url : ConnectionStrings]
    /\ ModulesLoaded

NextPool ==
    \/ GetDbClient
    \/ \E c \in CloseCalls : CloseDbConnection(c) \/ PoolEndResolved(c)

\* calls of getDbClient and closeDbConnection in any order
SpecPool == InitPool /\ [][NextPool]_vars

(* ---------------- lib/queue: getQueue and closeQueues ----------------- *)

\* the cached Queue of a name: queues.get(queueName)
CachedOf(n) == {i \in cached : qobjs[i].name = n}

\* the Map iterator of queues.values(): the first value after position pos
\* in insertion order, values set during the iteration included (0: none)
NextValue(pos) ==
    IF \E i \in cached : i > pos
    THEN CHOOSE i \in cached : i > pos /\ \A j \in cached : j > pos => i <= j
    ELSE 0

\* faulty variant: a new Queue is constructed and set at every call
GetQueueNoCache(n) ==
    /\ Len(qobjs) < MaxQueues
    /\ qobjs' = Append(qobjs, [name |-> n, closed |-> FALSE])
    /\ cached' = (cached \ CachedOf(n)) \cup {Len(qobjs) + 1}
    /\ qgot' = [q |-> Len(qobjs) + 1, closed |-> FALSE]
    /\ qsince' = [qsince EXCEPT ![n] = @ \cup {Len(qobjs) + 1}]
    /\ UNCHANGED qcl
    /\ UNCHANGED poolVars
    /\ LibFrame

\* getQueue(queueName): if (!queues.has(queueName)) { queues.set(queueName,
\* new Queue(queueName, ...)) }; return queues.get(queueName). publishJob
\* calls queue.add on the Queue returned, in the same turn.
GetQueue(n) ==
    /\ IF CachedOf(n) # {}
       THEN LET i == CHOOSE x \in CachedOf(n) : TRUE IN
            /\ qgot' = [q |-> i, closed |-> qobjs[i].closed]
            /\ qsince' = [qsince EXCEPT ![n] = @ \cup {i}]
            /\ UNCHANGED <<qobjs, cached>>
       ELSE /\ Len(qobjs) < MaxQueues
            /\ qobjs' = Append(qobjs, [name |-> n, closed |-> FALSE])
            /\ cached' = cached \cup {Len(qobjs) + 1}
            /\ qgot' = [q |-> Len(qobjs) + 1, closed |-> FALSE]
            /\ qsince' = [qsince EXCEPT ![n] = @ \cup {Len(qobjs) + 1}]
    /\ UNCHANGED qcl
    /\ UNCHANGED poolVars
    /\ LibFrame

\* one turn of closeQueues(): for (const queue of queues.values()) { await
\* queue.close() } queues.clear(). From position pos the loop calls close()
\* on the next value and awaits it, or finds no value left and clears the Map.
CloseQueuesTurn(c, pos) ==
    IF NextValue(pos) # 0
    THEN /\ qobjs' = [qobjs EXCEPT ![NextValue(pos)].closed = TRUE]
         /\ qcl' = [qcl EXCEPT ![c] = [at |-> "awaitClose", on |-> NextValue(pos)]]
         /\ UNCHANGED <<cached, qsince>>
    ELSE /\ cached' = {}
         /\ qsince' = [n \in QueueNames |-> {}]
         /\ qcl' = [qcl EXCEPT ![c] = [at |-> "done", on |-> pos]]
         /\ UNCHANGED qobjs

\* closeQueues() is called and runs up to its first await, or to its end
CloseQueues(c) ==
    /\ qcl[c].at = "none"
    /\ \A d \in CloseCalls : d < c => qcl[d].at # "none"
    /\ CloseQueuesTurn(c, 0)
    /\ UNCHANGED qgot
    /\ UNCHANGED poolVars
    /\ LibFrame

\* await queue.close() resolves and the loop goes on
QueueCloseResolved(c) ==
    /\ qcl[c].at = "awaitClose"
    /\ CloseQueuesTurn(c, qcl[c].on)
    /\ UNCHANGED qgot
    /\ UNCHANGED poolVars
    /\ LibFrame

\* a process that has loaded lib/queue
InitQueues ==
    /\ SystemIdle
    /\ LibInit

NextQueues ==
    \/ \E n \in QueueNames : GetQueue(n)
    \/ \E c \in CloseCalls : CloseQueues(c) \/ QueueCloseResolved(c)

\* calls of getQueue and closeQueues in any order
SpecQueues == InitQueues /\ [][NextQueues]_vars

(* ------------------------------ claims -------------------------------- *)

\* the requests whose INSERT succeeded
Inserted(r) == pc[r] \in {"publish", "respond", "created", "publishFailed"}

\* no other request's INSERT wrote the id this request drew
Fresh(r) == \A q \in Reqs \ {r} : Inserted(q) => jobId[q] # jobId[r]

\* the message has not been taken by a worker yet
Undelivered(m) ==
    m.state = "wait" /\ m.attemptsMade = 0 /\ m.stalledCounter = 0

\* the step in which POST answers 201
Returns201(r) == pc[r] = "respond" /\ pc'[r] = "created"

\* C1 as stated: a valid POST returns an id no other job has, and in the
\* state right after it returns the row of that id is pending, whatever the
\* workers do meanwhile.
C1_PendingOnReturn ==
    [][\A r \in Reqs :
         Returns201(r) =>
           /\ Fresh(r)
           /\ jobId[r] \in DOMAIN jobs'
           /\ jobs'[jobId[r]].status = "pending"]_vars

\* C1 amended: a valid POST returns an id no other job has, and in the state
\* right after it returns the row of that id exists, and is pending unless a
\* worker has already taken the job's message.
C1_FreshAndPendingUntilTaken ==
    [][\A r \in Reqs :
         Returns201(r) =>
           /\ Fresh(r)
           /\ jobId[r] \in DOMAIN jobs'
           /\ jobs'[jobId[r]].job_type = body[r].jobType
           /\ (Undelivered(queue'[r]) => jobs'[jobId[r]].status = "pending")]_vars

\* C1 witness: a POST has answered 201 with its row pending while another
\* job is in a worker's hands.
C1_Witness ==
    \E r \in Reqs, w \in Workers :
       /\ pc[r] = "created" /\ resp[r] = 201
       /\ Undelivered(queue[r])
       /\ jobs[jobId[r]].status = "pending"
       /\ wpc[w] = "try" /\ wjob[w] # r

InBroker(m) == m.state \in {"wait", "delayed", "active"}

\* C3: no orphan messages: every message in the broker carries the id of a
\* row of the store, only a request whose INSERT succeeded has added a
\* message, and a request whose INSERT failed has added none.
C3_NoOrphanMessage ==
    \A r \in Reqs :
       /\ InBroker(queue[r]) => queue[r].jobId \in DOMAIN jobs
       /\ queue[r] # NoMsg =>
            /\ pc[r] \in {"respond", "created"}
            /\ queue[r].jobId = jobId[r]
            /\ jobId[r] \in DOMAIN jobs
       /\ pc[r] = "insertFailed" => queue[r] = NoMsg

\* C3 witness: one request's INSERT failed while another request's message
\* is in the broker.
C3_Witness ==
    \E r, q \in Reqs :
       /\ pc[r] = "insertFailed" /\ queue[r] = NoMsg
       /\ InBroker(queue[q]) /\ queue[q].state = "active"

\* C4: when the enqueue failed after the INSERT succeeded, the row stays as
\* it was inserted, pending, in every later state.
C4_PendingForeverAfterPublishFailure ==
    \A r \in Reqs :
       pc[r] = "publishFailed" =>
          /\ jobId[r] \in DOMAIN jobs
          /\ jobs[jobId[r]] = NewRow(body[r].jobType, body[r].jobData,
                                      jobs[jobId[r]].created_at)
          /\ queue[r] = NoMsg

\* C4 witness: a request's enqueue failed, and afterwards the workers have
\* completed another job.
C4_Witness ==
    \E r, q \in Reqs :
       /\ pc[r] = "publishFailed"
       /\ jobs[jobId[r]].status = "pending"
       /\ queue[q].state = "completed"
       /\ jobs[jobId[q]].status = "completed"

\* C5: POST answers 201 only when both the INSERT and the enqueue succeeded,
\* and answers 500 whenever either of them failed.
C5_NoSilentDrop ==
    \A r \in Reqs :
       /\ resp[r] = 201 =>
            /\ pc[r] = "created"
            /\ jobId[r] \in DOMAIN jobs
            /\ queue[r] # NoMsg /\ queue[r].jobId = jobId[r]
       /\ pc[r] \in {"insertFailed", "publishFailed"} => resp[r] = 500
       /\ (pc[r] \in {"publishFailed", "insertFailed", "invalid"}) =>
            queue[r] = NoMsg

\* C5 witness: one POST answered 201, another one whose enqueue failed
\* answered 500.
C5_Witness ==
    \E r, q \in Reqs :
       /\ resp[r] = 201
       /\ pc[q] = "publishFailed" /\ resp[q] = 500

\* C6 as stated: a job delivered twice runs the handler body at most once
\* (a job no attempt of which was reported failed has entered the try block
\* at most once), and a delivery that finds the row processing or completed
\* does not enter the try block.
C6_DuplicateDeliverySkipped ==
    [][/\ \A r \in Reqs : queue'[r].attemptsMade = 0 => execs'[r] <= 1
       /\ \A w \in Workers :
            (wpc[w] = "markProcessing" /\ wpc'[w] = "try") =>
               StatusOf(HeldId(w)) \notin {"processing", "completed"}]_vars

\* C7 as stated: a job whose handler failed on every attempt (every attempt
\* reported failed had entered the try block, none was abandoned) has run
\* the handler exactly DefaultAttempts times once the broker gave it up, and
\* its row is failed from then on.
C7_RetryBound ==
    \A r \in Reqs :
       ( /\ queue[r].state = "failed"
         /\ queue[r].stalledCounter = 0
         /\ execs[r] = queue[r].attemptsMade ) =>
            /\ execs[r] = DefaultAttempts
            /\ StatusOf(queue[r].jobId) = "failed"

\* C8 as stated: a completed row keeps its status and result in every later
\* state, and a failed row whose attempts are exhausted stays failed.
C8_TerminalStatusKept ==
    [][/\ \A id \in DOMAIN jobs :
            jobs[id].status = "completed" =>
               /\ jobs'[id].status = "completed"
               /\ jobs'[id].result = jobs[id].result
       /\ \A r \in Reqs :
            (queue[r].state = "failed" /\ StatusOf(queue[r].jobId) = "failed")
               => jobs'[queue[r].jobId].status = "failed"]_vars

\* the transitions of section 4.1
LegalTransitions ==
    { <<"pending", "processing">>, <<"processing", "completed">>,
      <<"processing", "failed">>, <<"failed", "pending">> }

\* C9 as stated: every change of a row's status is one of pending->processing,
\* processing->completed, processing->failed, failed->pending.
C9_OnlyLegalTransitions ==
    [][\A id \in DOMAIN jobs :
         jobs'[id].status # jobs[id].status =>
            <<jobs[id].status, jobs'[id].status>> \in LegalTransitions]_vars

\* C10 as stated: a row has an errorMessage only while its status is failed.
C10_ErrorOnlyWhenFailed ==
    \A id \in DOMAIN jobs :
       jobs[id].error_message # NULL => jobs[id].status = "failed"

\* the broker's terminal records: completed, or failed with the attempts used up
Acknowledged(m) ==
    \/ m.state = "completed"
    \/ m.state = "failed" /\ m.attemptsMade >= m.attempts

\* C11: once the handler succeeded and the job is reported completed, its row
\* has status completed, a result that is not null and a completedAt that is
\* not null.
C11_CompletedHasResult ==
    \A r \in Reqs :
       queue[r].state = "completed" =>
          /\ StatusOf(queue[r].jobId) = "completed"
          /\ jobs[queue[r].jobId].result # NULL
          /\ jobs[queue[r].jobId].completed_at # 0

\* C12: completedAt is written exactly once, on the first entry to completed
\* or to terminal failed: null while the job is pending, not null in every
\* terminal state, and never written again.
C12_CompletedAtOnce ==
    \A r \in Reqs :
       queue[r].state # "none" =>
          LET row == jobs[queue[r].jobId] IN
          /\ row.completed_at <= 1
          /\ row.status = "pending" => row.completed_at = 0
          /\ (Acknowledged(queue[r]) /\ row.status \in {"completed", "failed"})
                => row.completed_at = 1

\* C13: when the broker has acknowledged a message (completed, or failed with
\* the attempts used up), the row of its job has status completed or failed,
\* never pending or processing, also when a store update of the worker failed.
C13_AcknowledgedIsTerminal ==
    \A r \in Reqs :
       Acknowledged(queue[r]) =>
          StatusOf(queue[r].jobId) \in {"completed", "failed"}

\* C14: at most one worker at a time holds a given job: no two processor
\* slots are in processEmailJob for the same jobId.
C14_SingleHolder ==
    \A w1, w2 \in Workers :
       (w1 # w2 /\ Busy(w1) /\ Busy(w2)) => HeldId(w1) # HeldId(w2)

\* two slots run handlers at the same time, for different jobs
C14_Witness ==
    \E w1, w2 \in Workers :
       /\ w1 # w2
       /\ wpc[w1] = "try" /\ wpc[w2] = "try"
       /\ HeldId(w1) # HeldId(w2)

\* the Worker tells the broker the outcome of slot w's attempt
ReportsCompleted(w) == wpc[w] = "resolved" /\ queue'[wjob[w]].state = "completed"
ReportsFailed(w) ==
    wpc[w] = "rejected" /\ queue'[wjob[w]].attemptsMade > queue[wjob[w]].attemptsMade

\* C15: the store is written before the broker is told: at the moment an
\* attempt is reported completed its row already has status completed, and at
\* the moment an attempt is reported failed its row already has status failed
\* with the error message of that attempt.
C15_StoreBeforeBroker ==
    [][\A w \in Workers :
          /\ ReportsCompleted(w) => StatusOf(HeldId(w)) = "completed"
          /\ ReportsFailed(w) =>
                /\ StatusOf(HeldId(w)) = "failed"
                /\ jobs[HeldId(w)].error_message = werr[w]]_vars

\* C16: a failing handler never stops the worker: the failure is caught for
\* that job alone and recorded as status failed on its row, and once it is
\* reported the slot is free to take other messages.
C16_FailureCaughtAndRecorded ==
    [][\A w \in Workers :
          /\ (wpc[w] = "catch" /\ wpc'[w] = "rejected") =>
                /\ HeldId(w) \in DOMAIN jobs'
                /\ jobs'[HeldId(w)].status = "failed"
                /\ jobs'[HeldId(w)].error_message = werr[w]
                /\ \A id \in DOMAIN jobs \ {HeldId(w)} : jobs'[id] = jobs[id]
          /\ ReportsFailed(w) => wpc'[w] = "idle"]_vars

\* C18: every job is executed by the handler registered for its own type: a
\* job of type T is processed by T's handler and by no other.
C18_HandlerOfOwnType ==
    \A w \in Workers :
       wpc[w] \in {"try", "catch", "resolved"} =>
          queue[wjob[w]].jobType = HandlerOf(w)

\* C20: when a worker receives a message whose jobId has no row, its status
\* update fails with a not-found error: the attempt does not run the handler
\* body and is not reported completed.
C20_MissingRowRejected ==
    /\ \A w \in Workers :
          (Busy(w) /\ HeldId(w) \notin DOMAIN jobs) =>
             wpc[w] \in {"markProcessing", "rejected"}
    /\ \A r \in Reqs :
          queue[r].state = "completed" => queue[r].jobId \in DOMAIN jobs

Signalled == Closing \/ proc # "running"

\* C19: graceful shutdown ordering: after SIGTERM or SIGINT the worker starts
\* no new job, the pool is closed only after every handler execution in
\* flight has finished, and the process exits only after the pool is closed.
C19_ShutdownOrdering ==
    [][/\ \A w \in Workers :
             (Signalled /\ wpc[w] = "idle") => wpc'[w] = "idle"
       /\ (pool.state = "open" /\ pool'.state # "open") =>
             \A w \in Workers : ~Busy(w)
       /\ (proc = "running" /\ proc' # "running") =>
             /\ \A w \in Workers : ~Busy(w)
             /\ pool.state = "ended"]_vars

\* C21: the store holds exactly one row per job id: an INSERT with an id that
\* already has a row fails and leaves that row as it is, the request answers
\* 500 and enqueues no message, and no two requests have inserted the same id.
C21_OneRowPerId ==
    [][\A r \in Reqs :
          /\ (pc[r] = "insert" /\ jobId[r] \in DOMAIN jobs /\ pc'[r] # "insert")
                => (pc'[r] = "insertFailed" /\ resp'[r] = 500 /\ jobs' = jobs)
          /\ pc'[r] = "insertFailed" => queue'[r] = NoMsg
          /\ \A q \in Reqs \ {r} :
                (Inserted(q) /\ Inserted(r))' => jobId'[q] # jobId'[r]]_vars

\* a request's INSERT was rejected for an id whose row another request had
\* inserted, and that row has since been worked on
C21_Witness ==
    \E r \in Reqs, q \in Reqs :
       /\ r # q
       /\ pc[r] = "insertFailed" /\ jobId[r] = jobId[q]
       /\ Inserted(q)
       /\ jobs[jobId[q]].status \in {"processing", "completed"}

\* the times the broker has put a message back for another attempt
Requeues(m) == IF m.state = "failed" THEN m.attemptsMade - 1 ELSE m.attemptsMade

\* C22: a job whose handler throws on every attempt, published with the
\* default options, is requeued 3 times, with backoff delays of 2000, 4000
\* and 8000 ms, and ends with status failed and a non-empty error message.
C22_ThreeRequeues ==
    \A r \in Reqs :
       ( /\ queue[r].state = "failed"
         /\ queue[r].stalledCounter = 0
         /\ execs[r] = queue[r].attemptsMade ) =>
            /\ Requeues(queue[r]) = 3
            /\ queue[r].delay = 8000
            /\ StatusOf(queue[r].jobId) = "failed"
            /\ jobs[queue[r].jobId].error_message # NULL

\* C29: id, job_type and job_data of a row never change after its creation,
\* through no worker step and no retry, and a step changes only the row whose
\* id the message of the stepping worker carries.
C29_IdTypePayloadImmutable ==
    [][\A id \in DOMAIN jobs :
          /\ id \in DOMAIN jobs'
          /\ jobs'[id].job_type = jobs[id].job_type
          /\ jobs'[id].job_data = jobs[id].job_data
          /\ jobs'[id] # jobs[id] =>
                \E w \in Workers :
                   Busy(w) /\ HeldId(w) = id /\ wpc'[w] # wpc[w]]_vars

\* a job with a payload failed an attempt, was retried and is completed, while
\* the other job's row is still as it was inserted
C29_Witness ==
    \E r \in Reqs, q \in Reqs :
       /\ r # q
       /\ queue[r].attemptsMade = 1 /\ queue[r].state = "completed"
       /\ jobs[jobId[r]].status = "completed"
       /\ jobs[jobId[r]].job_data = body[r].jobData /\ body[r].jobData # ""
       /\ Inserted(q) /\ jobId[q] # jobId[r]
       /\ jobs[jobId[q]].status = "pending"

\* C23: publishJob enqueues with the caller's options where they are given
\* and with the defaults otherwise: attempts is options.attempts when supplied
\* and 3 when omitted, backoff is options.backoff when supplied and
\* exponential with 2000 ms when omitted, and delay is options.delay (none
\* when omitted).
C23_OptionsOrDefaults ==
    \A r \in Reqs :
       queue[r].state # "none" =>
          LET o == opts[r]
              m == queue[r] IN
          /\ m.attempts = IF o.attempts = Omitted THEN 3 ELSE o.attempts
          /\ [type |-> m.backoffType, delay |-> m.backoffDelay] =
                IF o.backoff = NoBackoff
                THEN [type |-> "exponential", delay |-> 2000]
                ELSE o.backoff
          /\ m.delay = IF o.delay = Omitted THEN 0 ELSE o.delay

\* the GET that a step answers
Answers(q) == got = NoGet /\ got' # NoGet /\ got'.req = q

\* limit and offset of a list request as numbers (50 and 0 when not given)
LimitOf(q) == ParseInt(OrDefault(q.limit, "50"))
OffsetOf(q) == ParseInt(OrDefault(q.offset, "0"))

\* the rows with the requested status, and a row's position among them when
\* they are ordered by created_at descending (0 is the newest)
WithStatus(st) == {id \in DOMAIN jobs : jobs[id].status = st}
Position(id, S) ==
    Cardinality({y \in S : jobs[y].created_at > jobs[id].created_at})

\* C24: GET /api/jobs with a status filter, limit L and offset O returns at
\* most L rows, each with the requested status, ordered by created_at
\* descending, and they are exactly the rows at positions O .. O+L-1 of the
\* ordered filtered sequence.
C24_FilteredPage ==
    [][\A q \in GetRequests :
          ( /\ Answers(q)
            /\ q.jobId = "" /\ q.status # ""
            /\ LimitOf(q) >= 0 /\ OffsetOf(q) >= 0 ) =>
             LET rows == got'.rows
                 S == WithStatus(q.status) IN
             /\ got'.status = 200
             /\ Len(rows) <= LimitOf(q)
             /\ \A i \in 1..Len(rows) :
                   /\ rows[i].id \in DOMAIN jobs
                   /\ rows[i].row = jobs[rows[i].id]
                   /\ rows[i].row.status = q.status
             /\ \A i, j \in 1..Len(rows) :
                   i < j => /\ rows[i].id # rows[j].id
                            /\ rows[i].row.created_at >= rows[j].row.created_at
             /\ {rows[i].id : i \in 1..Len(rows)} =
                   {id \in S :
                      /\ Position(id, S) >= OffsetOf(q)
                      /\ Position(id, S) < OffsetOf(q) + LimitOf(q)}]_vars

\* two rows are completed and the second page of size 1 has been returned
C24_Witness ==
    /\ got.status = 200
    /\ got.req.status = "completed"
    /\ got.req.limit = "1" /\ got.req.offset = "1"
    /\ Len(got.rows) = 1
    /\ got.rows[1].row.created_at = 1

\* C25: the list query honours a type filter: when a job type is given as
\* filter, alone or with a status filter, every returned job has that type.
C25_TypeFilter ==
    (got.req.jobId = "" /\ got.req.type # "") =>
       \A i \in 1..Len(got.rows) : got.rows[i].row.job_type = got.req.type

\* C26: GET /api/jobs?jobId=X answers 404 exactly when the store has no row
\* with id X, and directly after a successful submit it returns the row with
\* the id, job type and payload as submitted and status pending.
C26_GetById ==
    [][\A q \in GetRequests :
          (Answers(q) /\ q.jobId # "") =>
             /\ got'.status = 404 <=> q.jobId \notin DOMAIN jobs
             /\ \A r \in Reqs :
                   ( /\ pc[r] = "created" /\ jobId[r] = q.jobId
                     /\ Undelivered(queue[r]) ) =>
                      /\ got'.status = 200
                      /\ got'.rows[1].id = jobId[r]
                      /\ got'.rows[1].row.job_type = body[r].jobType
                      /\ body[r].jobData # "" =>
                            got'.rows[1].row.job_data = body[r].jobData
                      /\ got'.rows[1].row.status = "pending"]_vars

\* C30: status is changed only by workers: a step of the publisher leaves
\* every existing row as it is and creates a row only with status pending,
\* and no GET /api/jobs, by id or list, changes a row or a broker message.
C30_StatusOnlyByWorkers ==
    [][/\ got' # got => (jobs' = jobs /\ queue' = queue)
       /\ \A r \in Reqs :
             pc'[r] # pc[r] =>
                /\ \A id \in DOMAIN jobs :
                      id \in DOMAIN jobs' /\ jobs'[id] = jobs[id]
                /\ \A id \in DOMAIN jobs' \ DOMAIN jobs :
                      jobs'[id].status = "pending"]_vars

\* a GET by id returned a row as processing, and a worker has completed the
\* job since
C30_Witness ==
    /\ got.status = 200 /\ got.req.jobId # ""
    /\ got.rows[1].row.status = "processing"
    /\ jobs[got.req.jobId].status = "completed"

\* C27: a process started without DATABASE_URL terminates with an error at
\* start-up, before it accepts a submission or takes a message: the
\* application without DATABASE_URL never serves and has received no request,
\* and the worker without DATABASE_URL never runs and has taken no message.
C27_FailFast ==
    /\ ~env["app"] =>
          /\ app # "serving"
          /\ \A r \in Reqs : pc[r] = "start"
    /\ ~env["worker"] =>
          /\ proc # "running"
          /\ \A w \in Workers : wpc[w] = "idle"

\* C28: over sequential start-ups against one database the SQL of migration
\* 001_create_jobs_table is executed exactly once, on the first start-up:
\* no later start-up executes it, and once the first start-up is over it has
\* been executed.
C28_AppliedOnce ==
    env["app"] =>
       /\ ran \subseteq {1}
       /\ (starts > 1 \/ app = "serving") => ran = {1}

\* C31: one id is carried unchanged through store and broker: the jobId
\* answered to the submitter, the id of the inserted row, the jobId field of
\* the enqueued message and the id the worker uses in its status updates are
\* all equal.
C31_SingleId ==
    [][/\ \A r \in Reqs :
             /\ queue'[r] # NoMsg =>
                   /\ queue'[r].jobId = jobId'[r]
                   /\ jobId'[r] \in DOMAIN jobs'
             /\ resp'[r] = 201 =>
                   /\ jobId'[r] \in DOMAIN jobs'
                   /\ queue'[r].jobId = jobId'[r]
       /\ \A w \in Workers :
             wpc'[w] # wpc[w] =>
                \A id \in DOMAIN jobs :
                   jobs'[id] # jobs[id] =>
                      /\ wjob[w] \in Reqs
                      /\ id = jobId[wjob[w]]
                      /\ id = HeldId(w)]_vars

\* a submitter was answered 201 and a worker has completed the row of the id
\* it was given
C31_Witness ==
    \E r \in Reqs :
       /\ resp[r] = 201
       /\ queue[r].jobId = jobId[r]
       /\ StatusOf(jobId[r]) = "completed"

C33_RecordedIffApplied ==
    (env["app"] /\ app = "serving") => (mig.version <=> mig.objects)

\* C35: under any interleaving of SIGTERM and SIGINT deliveries
\* emailWorker.close() and pool.end() are each invoked at most once: at most
\* one shutdown() call has passed emailWorker.close(), and no call has invoked
\* pool.end() on a pool whose end() was invoked before.
C35_EndedAtMostOnce ==
    /\ Cardinality({c \in Calls : sdpc[c] # "none"}) <= 1
    /\ \A c \in Calls : sdpc[c] # "rejected"

\* C34: a migration problem never prevents the application from starting:
\* whatever the outcome of runMigrations (applied, already applied, skipped
\* because DATABASE_URL is unset, or failed), every start-up that has begun
\* leads to Next.js being launched.
C34_AlwaysStarts == (app # "serving") ~> (app = "serving")

\* Next.js serves after a start-up whose migration failed: the SQL was
\* executed and the version row was not written
C34_Witness ==
    /\ app = "serving"
    /\ starts \in ran
    /\ ~mig.version

\* C36: getDbClient never hands out a pool that is being or has been ended:
\* the pool a getDbClient call returned had not had end() called on it when
\* it was returned, and at most one pool that has not ended exists.
C36_NoEndedPoolHandedOut ==
    /\ pgot.state \in {"none", "threw", "open"}
    /\ Cardinality({i \in 1..Len(pools) : pools[i].state # "ended"}) <= 1

\* C39: the pool's SSL setting follows the precedence for every combination
\* of inputs: on when DATABASE_SSL is 'true' or '1'; otherwise off when the
\* connection string contains localhost, 127.0.0.1 or postgres:5432;
\* otherwise on when NODE_ENV is production; otherwise off.
C39_SslPrecedence ==
    \A i \in 1..Len(pools) :
       LET explicit == cfg.ssl \in {"true", "1"}
           local == \/ Includes(cfg.url, <<"localhost">>)
                    \/ Includes(cfg.url, <<"127.0.0.1">>)
                    \/ Includes(cfg.url, <<"postgres", ":5432">>)
           production == cfg.node = "production"
       IN pools[i].ssl <=> (explicit \/ (~local /\ production))

\* a pool was created for a local connection string in production, without
\* DATABASE_SSL: its SSL is off
C39_Witness ==
    /\ Len(pools) > 0
    /\ cfg.ssl = "" /\ cfg.node = "production"
    /\ Includes(cfg.url, <<"postgres", ":5432">>)
    /\ ~pools[1].ssl

\* C37: the queue cache holds at most one Queue per queue name: the Map has
\* at most one value of a name, and between two queues.clear() every
\* getQueue(name) call has returned the same instance, the only Queue of
\* that name constructed in between.
C37_OneQueuePerName ==
    \A n \in QueueNames :
       /\ Cardinality(CachedOf(n)) <= 1
       /\ Cardinality(qsince[n]) <= 1
       /\ qsince[n] \subseteq CachedOf(n)

\* after a closeQueues() call has returned, getQueue has constructed a second
\* Queue of a name and returned it
C37_Witness ==
    /\ \E c \in CloseCalls : qcl[c].at = "done"
    /\ qgot.q > 1
    /\ qsince[qobjs[qgot.q].name] = {qgot.q}
    /\ \E i \in 1..Len(qobjs) : i < qgot.q /\ qobjs[i].name = qobjs[qgot.q].name

\* C38: no job is published to a closed queue: getQueue never returns a Queue
\* on which close() has been called, and when closeQueues returns the cache
\* is empty and every Queue ever created has been closed.
C38_NoClosedQueue ==
    [][/\ ~qgot'.closed
       /\ \A c \in CloseCalls :
             (qcl[c].at # "done" /\ qcl'[c].at = "done") =>
                /\ cached' = {}
                /\ \A i \in 1..Len(qobjs') : qobjs'[i].closed]_vars

====
